---- MODULE Spec2Model ----
(***************************************************************************)
(* gohybrid: an adapter that runs a net/http handler behind AWS Lambda     *)
(* HTTP triggers (ALB target group, API Gateway REST proxy, HTTP API v2).  *)
(* The model follows src/host.go: HttpAdapterHandler.Invoke classifies the *)
(* decoded event, builds an http.Request, runs the wrapped handler against *)
(* a buffering response, finalises the headers and encodes the response.   *)
(*                                                                         *)
(* Go strings are TLA+ strings where they are text (paths, methods, header *)
(* names and values) and sequences of byte values 0..255 where they are    *)
(* payloads (event body, response buffer, response body).                  *)
(***************************************************************************)
EXTENDS Integers, Sequences, FiniteSets, TLC

VARIABLES basepath, callLimit, event, pc, outcome, variant, path, req, res,
          wire, calls

vars == <<basepath, callLimit, event, pc, outcome, variant, path, req, res,
          wire, calls>>

(***************************************************************************)
(* Bounds of the model.                                                    *)
(***************************************************************************)
\* handler calls (WriteHeader, Write, Header().Add) per invocation in Spec
MaxCalls == 3
\* handler calls per invocation in the request-side specifications
MaxReqCalls == 1
\* length of the generated paths and base paths
MaxPathLen == 3
\* length of the generated request payloads
MaxBodyLen == 3

(***************************************************************************)
(* Go string functions used by the adapter (package strings).              *)
(***************************************************************************)
\* s[i:j] with Go's 0-based half-open indices
Slice(s, i, j) == SubSeq(s, i + 1, j)

\* strings.HasPrefix
HasPrefix(s, prefix) ==
    /\ Len(prefix) <= Len(s)
    /\ Slice(s, 0, Len(prefix)) = prefix

\* strings.Index: the 0-based index of the first occurrence, or -1
Index(s, sub) ==
    LET hits == {i \in 0..(Len(s) - Len(sub)) : Slice(s, i, i + Len(sub)) = sub}
    IN  IF hits = {} THEN -1
        ELSE CHOOSE i \in hits : \A j \in hits : i <= j

\* strings.Replace(s, old, new, 1): the first occurrence only
Replace1(s, old, new) ==
    LET i == Index(s, old)
    IN  IF i < 0 THEN s
        ELSE Slice(s, 0, i) \o new \o Slice(s, i + Len(old), Len(s))

\* strings.Replace(s, old, new, -1) for a non-empty old: every occurrence
RECURSIVE ReplaceAll(_, _, _)
ReplaceAll(s, old, new) ==
    LET i == Index(s, old)
    IN  IF i < 0 \/ old = "" THEN s
        ELSE Slice(s, 0, i) \o new
                 \o ReplaceAll(Slice(s, i + Len(old), Len(s)), old, new)

\* strings.Cut(s, sep): <<before, after, found>>
Cut(s, sep) ==
    LET i == Index(s, sep)
    IN  IF i < 0 THEN <<s, "", FALSE>>
        ELSE <<Slice(s, 0, i), Slice(s, i + Len(sep), Len(s)), TRUE>>

\* strings.Count(s, sub) for a one-character sub
Count(s, sub) == Cardinality({i \in 1..Len(s) : SubSeq(s, i, i) = sub})

(***************************************************************************)
(* Base path.                                                              *)
(***************************************************************************)
\* WithBasePath: a non-empty base path gets a leading slash
WithBasePath(p) ==
    IF p /= "" /\ ~HasPrefix(p, "/") THEN "/" \o p ELSE p

\* rewritePath with every occurrence of the base path removed
rewritePathAll(p, bp) ==
    IF HasPrefix(p, bp)
    THEN LET r == ReplaceAll(p, bp, "") IN IF r = "" THEN "/" ELSE r
    ELSE p

rewritePath(p, bp) ==
    IF HasPrefix(p, bp)
    THEN LET r == Replace1(p, bp, "") IN IF r = "" THEN "/" ELSE r
    ELSE p

(***************************************************************************)
(* Decoded JSON (encoding/json into map[string]interface{}).  A value is a *)
(* record tagged with its Go dynamic type; Nil is Go's nil interface, which*)
(* is both a JSON null and the result of looking up a key that is absent.  *)
(***************************************************************************)
Nil == [t |-> "nil"]
JStr(s) == [t |-> "string", v |-> s]
JBool(b) == [t |-> "bool", v |-> b]
JNum(n) == [t |-> "float64", v |-> n]
JObj(m) == [t |-> "map", v |-> m]
JArr(a) == [t |-> "slice", v |-> a]

\* the map with no keys
EmptyMap == [k \in {} |-> Nil]

\* m[k] of a Go map: the value, or nil when the key is absent
Lookup(m, k) == IF k \in DOMAIN m THEN m[k] ELSE Nil

\* the "ok" of v, ok := m[k]
Has(m, k) == k \in DOMAIN m

\* whether the type assertion x.(T) succeeds
IsString(x) == x.t = "string"
IsBool(x) == x.t = "bool"
IsMap(x) == x.t = "map"
IsSlice(x) == x.t = "slice"

(***************************************************************************)
(* encoding/base64, StdEncoding.  Characters are their ASCII codes.        *)
(***************************************************************************)
PadChar == 61

\* encodeStd[i]: "A".."Z", "a".."z", "0".."9", "+", "/"
EncChar(i) ==
    IF i < 26 THEN 65 + i
    ELSE IF i < 52 THEN 97 + (i - 26)
    ELSE IF i < 62 THEN 48 + (i - 52)
    ELSE IF i = 62 THEN 43 ELSE 47

\* decodeMap[c]: the 6-bit value of a character, 255 for a character outside
\* the alphabet
DecChar(c) ==
    IF c \in 65..90 THEN c - 65
    ELSE IF c \in 97..122 THEN c - 97 + 26
    ELSE IF c \in 48..57 THEN c - 48 + 52
    ELSE IF c = 43 THEN 62
    ELSE IF c = 47 THEN 63 ELSE 255

\* Encoding.EncodeToString: 3 bytes to 4 characters, the tail padded with "="
RECURSIVE EncodeToString(_)
EncodeToString(src) ==
    IF Len(src) = 0 THEN <<>>
    ELSE IF Len(src) >= 3
    THEN LET val == src[1] * 65536 + src[2] * 256 + src[3]
         IN  << EncChar((val \div 262144) % 64), EncChar((val \div 4096) % 64),
                EncChar((val \div 64) % 64), EncChar(val % 64) >>
             \o EncodeToString(SubSeq(src, 4, Len(src)))
    ELSE LET val == src[1] * 65536 + (IF Len(src) = 2 THEN src[2] * 256 ELSE 0)
         IN  << EncChar((val \div 262144) % 64), EncChar((val \div 4096) % 64),
                IF Len(src) = 2 THEN EncChar((val \div 64) % 64) ELSE PadChar,
                PadChar >>

\* The bytes a reader over base64.NewDecoder(StdEncoding, s) delivers, and
\* whether the read ends in an error (corrupt input or unexpected EOF).
\* The decoder works on quanta of 4 characters; bytes of the quanta before
\* a corrupt one are delivered.
RECURSIVE DecodeString(_)
DecodeString(s) ==
    IF Len(s) = 0 THEN [bytes |-> <<>>, err |-> FALSE]
    ELSE IF Len(s) < 4 THEN [bytes |-> <<>>, err |-> TRUE]
    ELSE LET d == [j \in 1..4 |-> DecChar(s[j])]
             last == Len(s) = 4
             val == d[1] * 262144 + d[2] * 4096
                    + (IF d[3] = 255 THEN 0 ELSE d[3] * 64)
                    + (IF d[4] = 255 THEN 0 ELSE d[4])
             b == << (val \div 65536) % 256, (val \div 256) % 256, val % 256 >>
         IN  IF d[1] = 255 \/ d[2] = 255 THEN [bytes |-> <<>>, err |-> TRUE]
             ELSE IF d[3] = 255
             THEN IF s[3] = PadChar /\ s[4] = PadChar /\ last
                  THEN [bytes |-> SubSeq(b, 1, 1), err |-> FALSE]
                  ELSE [bytes |-> <<>>, err |-> TRUE]
             ELSE IF d[4] = 255
             THEN IF s[4] = PadChar /\ last
                  THEN [bytes |-> SubSeq(b, 1, 2), err |-> FALSE]
                  ELSE [bytes |-> <<>>, err |-> TRUE]
             ELSE LET rest == DecodeString(SubSeq(s, 5, Len(s)))
                  IN  [bytes |-> b \o rest.bytes, err |-> rest.err]

(***************************************************************************)
(* Request body.                                                           *)
(***************************************************************************)
\* extractBodyReader that ignores isBase64Encoded
extractBodyReaderLiteral(ev) ==
    IF IsString(Lookup(ev, "body"))
    THEN [panic |-> FALSE, bytes |-> Lookup(ev, "body").v, err |-> FALSE]
    ELSE [panic |-> FALSE, bytes |-> <<>>, err |-> FALSE]

\* extractBodyReader: the reader's content, read to its end.  panic is the
\* failed assertion e.(bool).
extractBodyReader(ev) ==
    IF IsString(Lookup(ev, "body"))
    THEN IF Has(ev, "isBase64Encoded") /\ ~IsBool(ev["isBase64Encoded"])
         THEN [panic |-> TRUE, bytes |-> <<>>, err |-> FALSE]
         ELSE IF Has(ev, "isBase64Encoded") /\ ev["isBase64Encoded"].v
         THEN LET d == DecodeString(ev["body"].v)
              IN  [panic |-> FALSE, bytes |-> d.bytes, err |-> d.err]
         ELSE [panic |-> FALSE, bytes |-> ev["body"].v, err |-> FALSE]
    ELSE [panic |-> FALSE, bytes |-> <<>>, err |-> FALSE]

(***************************************************************************)
(* net/url and net/http as http.NewRequest uses them.  The paths of the    *)
(* model are strings over slash, question mark and letters: they hold no   *)
(* hash, percent, colon, star or control character, so no fragment, scheme *)
(* or escape is parsed.                                                    *)
(***************************************************************************)
\* url.Parse: the "?" splits off the query, a leading "//" (not "///")
\* makes the text up to the next "/" the host
ParseURL(raw) ==
    LET forced == /\ Len(raw) > 0
                  /\ Slice(raw, Len(raw) - 1, Len(raw)) = "?"
                  /\ Count(raw, "?") = 1
        c == Cut(raw, "?")
        rest == IF forced THEN Slice(raw, 0, Len(raw) - 1) ELSE c[1]
        rawQuery == IF forced THEN "" ELSE c[2]
        authority == HasPrefix(rest, "//") /\ ~HasPrefix(rest, "///")
        a == Slice(rest, 2, Len(rest))
        i == Index(a, "/")
    IN  [ host |-> IF authority THEN (IF i >= 0 THEN Slice(a, 0, i) ELSE a)
                   ELSE "",
          path |-> IF authority THEN (IF i >= 0 THEN Slice(a, i, Len(a)) ELSE "")
                   ELSE rest,
          rawQuery |-> rawQuery ]

\* the characters of an HTTP token (httpguts.IsTokenRune): letters, digits
\* and punctuation, of which the model's methods use none but these
TokenChars ==
    { "A", "B", "C", "D", "E", "F", "G", "H", "I", "J", "K", "L", "M", "N",
      "O", "P", "Q", "R", "S", "T", "U", "V", "W", "X", "Y", "Z",
      "a", "b", "c", "d", "e", "f", "g", "h", "i", "j", "k", "l", "m", "n",
      "o", "p", "q", "r", "s", "t", "u", "v", "w", "x", "y", "z",
      "0", "1", "2", "3", "4", "5", "6", "7", "8", "9",
      "-", ".", "_", "+" }

\* net/http validMethod
validMethod(m) ==
    /\ Len(m) > 0
    /\ \A i \in 1..Len(m) : SubSeq(m, i, i) \in TokenChars

\* the escapes of url.QueryEscape for the characters of the model that it
\* changes; letters, digits, "-", "_", "." and "~" stay as they are
EscapeTable ==
    << << " ", "+" >>, << "%", "%25" >>, << "&", "%26" >>, << "+", "%2B" >>,
       << "/", "%2F" >>, << ";", "%3B" >>, << "=", "%3D" >>, << "?", "%3F" >> >>

\* url.QueryEscape
RECURSIVE QueryEscape(_)
QueryEscape(s) ==
    IF s = "" THEN ""
    ELSE LET c == SubSeq(s, 1, 1)
             hit == {n \in 1..Len(EscapeTable) : EscapeTable[n][1] = c}
         IN  (IF hit = {} THEN c ELSE EscapeTable[CHOOSE n \in hit : TRUE][2])
                 \o QueryEscape(SubSeq(s, 2, Len(s)))

\* url.QueryUnescape: "+" is a space, "%XX" the escaped character; ok is
\* false for an escape that is cut short or names no character of the table
RECURSIVE QueryUnescape(_)
QueryUnescape(s) ==
    IF s = "" THEN [ok |-> TRUE, s |-> ""]
    ELSE LET c == SubSeq(s, 1, 1)
         IN  IF c = "%"
             THEN LET hit == {n \in 1..Len(EscapeTable) :
                                 /\ Len(s) >= 3
                                 /\ EscapeTable[n][2] = SubSeq(s, 1, 3)}
                      rest == QueryUnescape(SubSeq(s, 4, Len(s)))
                  IN  IF hit = {} THEN [ok |-> FALSE, s |-> ""]
                      ELSE [ok |-> rest.ok,
                            s |-> EscapeTable[CHOOSE n \in hit : TRUE][1]
                                      \o rest.s]
             ELSE LET rest == QueryUnescape(SubSeq(s, 2, Len(s)))
                  IN  [ok |-> rest.ok,
                       s |-> (IF c = "+" THEN " " ELSE c) \o rest.s]

\* url.ParseQuery as URL.Query calls it, dropping what does not parse: the
\* pairs are split at "&", a pair at its first "=", and both sides unescaped;
\* an empty pair and a pair with a ";" or a bad escape are skipped
RECURSIVE ParseQuery(_)
ParseQuery(raw) ==
    IF raw = "" THEN EmptyMap
    ELSE LET c == Cut(raw, "&")
             kv == Cut(c[1], "=")
             k == QueryUnescape(kv[1])
             v == QueryUnescape(kv[2])
             m == ParseQuery(c[2])
         IN  IF c[1] = "" \/ Index(c[1], ";") >= 0 \/ ~k.ok \/ ~v.ok THEN m
             ELSE IF k.s \in DOMAIN m THEN [m EXCEPT ![k.s] = << v.s >> \o @]
             ELSE [x \in DOMAIN m \cup {k.s} |-> IF x = k.s THEN << v.s >> ELSE m[x]]

\* the characters of the model's query keys in byte order
ByteOrder ==
    " %&+-./0123456789;=?ABCDEFGHIJKLMNOPQRSTUVWXYZ_abcdefghijklmnopqrstuvwxyz~"

\* s < t as Go compares strings, byte by byte
RECURSIVE StringLess(_, _)
StringLess(s, t) ==
    IF t = "" THEN FALSE
    ELSE IF s = "" THEN TRUE
    ELSE LET a == Index(ByteOrder, SubSeq(s, 1, 1))
             b == Index(ByteOrder, SubSeq(t, 1, 1))
         IN  IF a /= b THEN a < b
             ELSE StringLess(SubSeq(s, 2, Len(s)), SubSeq(t, 2, Len(t)))

\* the keys of a set in sorted order (slices.Sort in Values.Encode)
RECURSIVE SortedKeys(_)
SortedKeys(S) ==
    IF S = {} THEN <<>>
    ELSE LET k == CHOOSE x \in S : \A y \in S \ {x} : StringLess(x, y)
         IN  << k >> \o SortedKeys(S \ {k})

\* the pairs key=value of one key of Values.Encode
RECURSIVE EncodeKey(_, _)
EncodeKey(k, vs) ==
    IF Len(vs) = 0 THEN <<>>
    ELSE << QueryEscape(k) \o "=" \o QueryEscape(Head(vs)) >>
             \o EncodeKey(k, Tail(vs))

\* the pairs of the keys in the given order
RECURSIVE EncodeKeys(_, _)
EncodeKeys(q, ks) ==
    IF Len(ks) = 0 THEN <<>>
    ELSE EncodeKey(Head(ks), q[Head(ks)]) \o EncodeKeys(q, Tail(ks))

\* http.NewRequest: an empty method is GET, an invalid method is an error,
\* the URL is parsed
NewRequest(method, url, body) ==
    LET m == IF method = "" THEN "GET" ELSE method
        u == ParseURL(url)
    IN  [ err |-> ~validMethod(m),
          method |-> m,
          host |-> u.host,
          path |-> u.path,
          rawQuery |-> u.rawQuery,
          body |-> body.bytes,
          bodyErr |-> body.err ]

(***************************************************************************)
(* Multi-maps (url.Values, http.Header): name -> sequence of values.       *)
(***************************************************************************)
\* Values.Add / the append of Header.Add
MAdd(h, k, v) ==
    IF k \in DOMAIN h THEN [h EXCEPT ![k] = Append(@, v)]
    ELSE [x \in DOMAIN h \cup {k} |-> IF x = k THEN <<v>> ELSE h[x]]

\* textproto.CanonicalMIMEHeaderKey on the header names of the model; every
\* other name of the model is already canonical
CanonicalMIMEHeaderKey(k) ==
    CASE k = "x-tag" -> "X-Tag"
      [] k = "x-custom" -> "X-Custom"
      [] k = "content-type" -> "Content-Type"
      [] k = "content-length" -> "Content-Length"
      [] OTHER -> k

\* Header.Add
HeaderAdd(h, k, v) == MAdd(h, CanonicalMIMEHeaderKey(k), v)

\* Header.Get: the first value of the name, "" when there is none
HeaderGet(h, k) ==
    LET c == CanonicalMIMEHeaderKey(k)
    IN  IF c \in DOMAIN h /\ Len(h[c]) > 0 THEN h[c][1] ELSE ""

\* the orders in which a range over a Go map can visit its keys
Orders(S) ==
    {o \in [1..Cardinality(S) -> S] : \A i, j \in DOMAIN o : o[i] = o[j] => i = j}

\* strings.Join
RECURSIVE Join(_, _)
Join(d, sep) ==
    IF Len(d) = 0 THEN ""
    ELSE IF Len(d) = 1 THEN d[1]
    ELSE d[1] \o sep \o Join(Tail(d), sep)

\* Values.Encode: the pairs of the keys in sorted order, joined with "&"
Encode(q) == Join(EncodeKeys(q, SortedKeys(DOMAIN q)), "&")

\* toStringSlice; the caller has checked that every element is a string
toStringSlice(s) == [i \in 1..Len(s) |-> s[i].v]

(***************************************************************************)
(* Query string and request headers.  A range over a Go map visits the     *)
(* keys in an unspecified order: the callers pass the order taken.         *)
(***************************************************************************)
\* the keys of a decoded JSON object, none for any other value
KeysOf(x) == IF IsMap(x) THEN DOMAIN x.v ELSE {}

\* for k, v := range p { q.Add(k, v.(string)) }
RECURSIVE queryAddSingular(_, _, _)
queryAddSingular(q, m, ord) ==
    IF Len(ord) = 0 THEN q
    ELSE queryAddSingular(MAdd(q, Head(ord), m[Head(ord)].v), m, Tail(ord))

\* for _, i := range v { q.Add(k, i.(string)) }
RECURSIVE queryAddList(_, _, _)
queryAddList(q, k, list) ==
    IF Len(list) = 0 THEN q
    ELSE queryAddList(MAdd(q, k, Head(list).v), k, Tail(list))

\* for k, v := range p { for _, i := range v ... }
RECURSIVE queryAddMulti(_, _, _)
queryAddMulti(q, m, ord) ==
    IF Len(ord) = 0 THEN q
    ELSE queryAddMulti(queryAddList(q, Head(ord), m[Head(ord)].v), m, Tail(ord))

\* whether a value is a JSON object whose values are all strings
IsStringMap(x) == IsMap(x) /\ \A k \in DOMAIN x.v : IsString(x.v[k])

\* whether a value is a JSON object whose values are all lists of strings
IsStringListMap(x) ==
    /\ IsMap(x)
    /\ \A k \in DOMAIN x.v :
          /\ IsSlice(x.v[k])
          /\ \A j \in 1..Len(x.v[k].v) : IsString(x.v[k].v[j])

\* mapQueryString in which the multi-value parameters replace the singular
mapQueryStringReplace(ev, q0, os, om) ==
    LET p1 == Lookup(ev, "queryStringParameters")
        p2 == Lookup(ev, "multiValueQueryStringParameters")
        q1 == IF p1.t = "nil" THEN q0 ELSE queryAddSingular(q0, p1.v, os)
        q2 == IF p2.t = "nil" THEN q1 ELSE queryAddMulti(q0, p2.v, om)
    IN  IF \/ p1.t /= "nil" /\ ~IsStringMap(p1)
           \/ p2.t /= "nil" /\ ~IsStringListMap(p2)
        THEN [panic |-> TRUE, q |-> q0, rawQuery |-> ""]
        ELSE [panic |-> FALSE, q |-> q2, rawQuery |-> Encode(q2)]

\* mapQueryString: q starts as the query of the parsed URL and ends as the
\* URL's RawQuery, q.Encode(); panic is a failed
\* type assertion on queryStringParameters or multiValueQueryStringParameters
mapQueryString(ev, q0, os, om) ==
    LET p1 == Lookup(ev, "queryStringParameters")
        p2 == Lookup(ev, "multiValueQueryStringParameters")
        q1 == IF p1.t = "nil" THEN q0 ELSE queryAddSingular(q0, p1.v, os)
        q2 == IF p2.t = "nil" THEN q1 ELSE queryAddMulti(q1, p2.v, om)
    IN  IF \/ p1.t /= "nil" /\ ~IsStringMap(p1)
           \/ p2.t /= "nil" /\ ~IsStringListMap(p2)
        THEN [panic |-> TRUE, q |-> q0, rawQuery |-> ""]
        ELSE [panic |-> FALSE, q |-> q2, rawQuery |-> Encode(q2)]

\* for k, v := range p { req.Header.Add(k, v.(string)) }
RECURSIVE headerAddSingular(_, _, _)
headerAddSingular(h, m, ord) ==
    IF Len(ord) = 0 THEN h
    ELSE headerAddSingular(HeaderAdd(h, Head(ord), m[Head(ord)].v), m, Tail(ord))

\* the multi-value loop adding every value of a list on its own
RECURSIVE headerAddEach(_, _, _)
headerAddEach(h, m, ord) ==
    IF Len(ord) = 0 THEN h
    ELSE LET d == toStringSlice(m[Head(ord)].v)
             RECURSIVE each(_, _)
             each(g, n) == IF n > Len(d) THEN g
                           ELSE each(HeaderAdd(g, Head(ord), d[n]), n + 1)
         IN  headerAddEach(each(h, 1), m, Tail(ord))

\* for k, v := range p { req.Header.Add(k, strings.Join(toStringSlice(v), ",")) }
RECURSIVE headerAddJoined(_, _, _)
headerAddJoined(h, m, ord) ==
    IF Len(ord) = 0 THEN h
    ELSE headerAddJoined(
             HeaderAdd(h, Head(ord), Join(toStringSlice(m[Head(ord)].v), ",")),
             m, Tail(ord))

\* mapHeaders: panic is a failed type assertion on headers or multiValueHeaders
mapHeaders(ev, os, om) ==
    LET p1 == Lookup(ev, "headers")
        p2 == Lookup(ev, "multiValueHeaders")
        h1 == IF p1.t = "nil" THEN EmptyMap
              ELSE headerAddSingular(EmptyMap, p1.v, os)
    IN  IF \/ p1.t /= "nil" /\ ~IsStringMap(p1)
           \/ p2.t /= "nil" /\ ~IsStringListMap(p2)
        THEN [panic |-> TRUE, h |-> EmptyMap]
        ELSE [panic |-> FALSE,
              h |-> IF p2.t = "nil" THEN h1 ELSE headerAddJoined(h1, p2.v, om)]

\* the orders the four ranges of one invocation can take
RangeOrders(ev) ==
    [ qs : Orders(KeysOf(Lookup(ev, "queryStringParameters"))),
      qm : Orders(KeysOf(Lookup(ev, "multiValueQueryStringParameters"))),
      hs : Orders(KeysOf(Lookup(ev, "headers"))),
      hm : Orders(KeysOf(Lookup(ev, "multiValueHeaders"))) ]

(***************************************************************************)
(* The three request handlers up to the call of the wrapped handler.  They *)
(* differ in the fields they take the path and the method from.            *)
(***************************************************************************)
NoReq == [none |-> TRUE]

\* the event value the variant takes the path from
pathField(ev, v) ==
    IF v = "V2" THEN Lookup(ev, "rawPath") ELSE Lookup(ev, "path")

\* methodField with every variant reading the top-level httpMethod
methodFieldTopLevel(ev, v) == Lookup(ev, "httpMethod")

\* the event value the variant takes the method from; Nil stands for the
\* failed assertion rctx["http"].(map[string]interface{}) as well, both panic
methodField(ev, v) ==
    IF v = "V2"
    THEN LET httpInfo == Lookup(ev["requestContext"].v, "http")
         IN  IF IsMap(httpInfo) THEN Lookup(httpInfo.v, "method") ELSE Nil
    ELSE Lookup(ev, "httpMethod")

\* handleALBTargetGroupRequest, handleAPIGatewayProxyRequest and
\* handleAPIGatewayV2HttpRequest up to ServeHTTP: the outcome, the rewritten
\* path and the request built
buildRequest(ev, bp, v, ord) ==
    LET pv == pathField(ev, v)
        mv == methodField(ev, v)
        p == rewritePath(pv.v, bp)
        body == extractBodyReader(ev)
        r == NewRequest(mv.v, p, body)
        q == mapQueryString(ev, ParseQuery(r.rawQuery), ord.qs, ord.qm)
        h == mapHeaders(ev, ord.hs, ord.hm)
    IN  IF ~IsString(pv) THEN [status |-> "panic", path |-> "", req |-> NoReq]
        ELSE IF ~IsString(mv) \/ body.panic
        THEN [status |-> "panic", path |-> p, req |-> NoReq]
        ELSE IF r.err THEN [status |-> "request_error", path |-> p, req |-> NoReq]
        ELSE IF q.panic \/ h.panic
        THEN [status |-> "panic", path |-> p, req |-> NoReq]
        ELSE [status |-> "serving", path |-> p,
              req |-> [ method |-> r.method, host |-> r.host, path |-> r.path,
                        rawQuery |-> q.rawQuery,
                        query |-> ParseQuery(q.rawQuery), header |-> h.h,
                        body |-> r.body, bodyErr |-> r.bodyErr ]]

\* Invoke with the requestContext keys tested in the order http, elb,
\* resourcePath
classifyHttpFirst(e) ==
    IF ~e.json THEN "json_error"
    ELSE IF ~Has(e.m, "requestContext") THEN "unsupported"
    ELSE IF ~IsMap(e.m["requestContext"]) THEN "panic"
    ELSE LET k == e.m["requestContext"].v
         IN  IF Has(k, "http") THEN "V2"
             ELSE IF Has(k, "elb") THEN "ALB"
             ELSE IF Has(k, "resourcePath") THEN "REST"
             ELSE "unsupported"

\* Invoke up to the dispatch: the variant whose handler is called, or how
\* Invoke ends without calling one (json.Unmarshal fails, the assertion
\* rctx.(map[string]interface{}) panics, no key matches)
classify(e) ==
    IF ~e.json THEN "json_error"
    ELSE IF ~Has(e.m, "requestContext") THEN "unsupported"
    ELSE IF ~IsMap(e.m["requestContext"]) THEN "panic"
    ELSE LET k == e.m["requestContext"].v
         IN  IF Has(k, "elb") THEN "ALB"
             ELSE IF Has(k, "http") THEN "V2"
             ELSE IF Has(k, "resourcePath") THEN "REST"
             ELSE "unsupported"

Variants == {"ALB", "V2", "REST"}

(***************************************************************************)
(* The buffering response (type response) and its encoding.                *)
(***************************************************************************)
binaryMimeTypes == << "image/", "application/pdf", "application/binary" >>

\* &response{req: req, header: make(http.Header), buffer: &bytes.Buffer{}}
NewResponse ==
    [ header |-> EmptyMap, wroteHeader |-> FALSE, status |-> 0, buffer |-> <<>> ]

NoRes == [none |-> TRUE]

\* WriteHeader that records every status it is given
WriteHeaderAlways(r, statusCode) ==
    [r EXCEPT !.status = statusCode, !.wroteHeader = TRUE]

\* response.WriteHeader
WriteHeader(r, statusCode) ==
    IF ~r.wroteHeader
    THEN [r EXCEPT !.status = statusCode, !.wroteHeader = TRUE]
    ELSE r

StatusOK == 200

\* Header().Add that is ignored once the status is committed
responseHeaderAddLocked(r, k, v) ==
    IF r.wroteHeader THEN r ELSE [r EXCEPT !.header = HeaderAdd(@, k, v)]

\* response.Header().Add(k, v): Header returns the live map, at any time
responseHeaderAdd(r, k, v) == [r EXCEPT !.header = HeaderAdd(@, k, v)]
\* a Write that replaces the buffered bytes
WriteReplace(r, p) ==
    LET c == IF r.wroteHeader THEN r ELSE WriteHeader(r, StatusOK)
    IN  [c EXCEPT !.buffer = p]

\* response.Write
Write(r, p) ==
    LET c == IF ~r.wroteHeader THEN WriteHeader(r, StatusOK) ELSE r
    IN  [c EXCEPT !.buffer = @ \o p]

\* the JPEG signature of the sniffing table
JpegMagic == << 255, 216, 255 >>

\* whether a byte makes data binary for the text signature
IsBinaryByte(b) ==
    b <= 8 \/ b = 11 \/ (14 <= b /\ b <= 26) \/ (28 <= b /\ b <= 31)

\* http.DetectContentType on the payloads of the model: of the signature
\* table the JPEG entry, then the text signature, then the fallback
DetectContentType(data) ==
    IF Len(data) >= Len(JpegMagic) /\ SubSeq(data, 1, Len(JpegMagic)) = JpegMagic
    THEN "image/jpeg"
    ELSE IF \A i \in 1..Len(data) : ~IsBinaryByte(data[i])
    THEN "text/plain; charset=utf-8"
    ELSE "application/octet-stream"

\* response.finalise
finalise(r) ==
    LET h1 == IF HeaderGet(r.header, "Content-Type") = ""
              THEN HeaderAdd(r.header, "Content-Type", DetectContentType(r.buffer))
              ELSE r.header
        h2 == IF HeaderGet(h1, "Content-Length") = ""
              THEN HeaderAdd(h1, "Content-Length", ToString(Len(r.buffer)))
              ELSE h1
    IN  [r EXCEPT !.header = h2]

\* groupHeaders with every name that has a value in the single-value map too
groupHeadersBoth(r) ==
    [ h |-> [k \in {x \in DOMAIN r.header : Len(r.header[x]) >= 1}
                |-> r.header[k][1]],
      mvh |-> [k \in {x \in DOMAIN r.header : Len(r.header[x]) /= 1}
                |-> r.header[k]] ]

\* response.groupHeaders
groupHeaders(r) ==
    [ h |-> [k \in {x \in DOMAIN r.header : Len(r.header[x]) = 1}
                |-> r.header[k][1]],
      mvh |-> [k \in {x \in DOMAIN r.header : Len(r.header[x]) /= 1}
                |-> r.header[k]] ]

\* response.isBase64Encoded
isBase64Encoded(r) ==
    LET ct == HeaderGet(r.header, "Content-Type")
    IN  \E j \in 1..Len(binaryMimeTypes) : Index(ct, binaryMimeTypes[j]) = 0

\* bodyString that never encodes
bodyStringLiteral(r) == r.buffer

\* response.bodyString
bodyString(r) ==
    IF isBase64Encoded(r) THEN EncodeToString(r.buffer) ELSE r.buffer

NoWire == [none |-> TRUE]

\* the events.*Response value the handlers marshal, after finalise
encodeResponse(r0) ==
    LET r == finalise(r0)
        g == groupHeaders(r)
    IN  [ statusCode |-> r.status,
          headers |-> g.h,
          multiValueHeaders |-> g.mvh,
          body |-> bodyString(r),
          isBase64Encoded |-> isBase64Encoded(r) ]

(***************************************************************************)
(* The state machine.  Each invocation i runs Invoke on its event: it is   *)
(* classified and its request built in one step, the wrapped handler then  *)
(* calls the response writer, and its return ends the invocation with the  *)
(* encoded response.  basepath is the adapter's configuration.             *)
(***************************************************************************)
Invocations == {"i1", "i2"}

\* what the handlers of the model write
StatusCodes == {404, 500}
Payloads == { <<>>, <<104, 105>>, JpegMagic }
\* the header additions of the handlers: a Content-Type that is binary, one
\* that is not and an empty one, a name in its canonical and in another
\* spelling, and a Content-Length of the handler's own
HeaderAdds ==
    { << "Content-Type", "image/jpeg" >>, << "Content-Type", "text/html" >>,
      << "Content-Type", "" >>, << "Content-Length", "7" >>,
      << "X-Tag", "text/html" >>, << "x-tag", "image/jpeg" >> }

\* Invoke: json.Unmarshal, the dispatch on requestContext and the variant's
\* handler up to ServeHTTP
Invoke(i) ==
    /\ pc[i] = "idle"
    /\ LET c == classify(event[i])
       IN  IF c \in Variants
           THEN \E ord \in RangeOrders(event[i].m) :
                  LET b == buildRequest(event[i].m, basepath, c, ord)
                  IN  /\ variant' = [variant EXCEPT ![i] = c]
                      /\ path' = [path EXCEPT ![i] = b.path]
                      /\ req' = [req EXCEPT ![i] = b.req]
                      /\ IF b.status = "serving"
                         THEN /\ pc' = [pc EXCEPT ![i] = "serving"]
                              /\ res' = [res EXCEPT ![i] = NewResponse]
                              /\ UNCHANGED outcome
                         ELSE /\ pc' = [pc EXCEPT ![i] = "done"]
                              /\ outcome' = [outcome EXCEPT ![i] = b.status]
                              /\ UNCHANGED res
           ELSE /\ pc' = [pc EXCEPT ![i] = "done"]
                /\ outcome' = [outcome EXCEPT ![i] = c]
                /\ UNCHANGED <<variant, path, req, res>>
    /\ UNCHANGED <<basepath, callLimit, event, wire, calls>>

\* the wrapped handler calls w.WriteHeader(code)
HandlerWriteHeader(i) ==
    /\ pc[i] = "serving"
    /\ Len(calls[i]) < callLimit
    /\ \E code \in StatusCodes :
          /\ res' = [res EXCEPT ![i] = WriteHeader(@, code)]
          /\ calls' = [calls EXCEPT
                         ![i] = Append(@, [op |-> "WriteHeader", code |-> code])]
    /\ UNCHANGED <<basepath, callLimit, event, pc, outcome, variant, path, req,
                   wire>>

\* a Write into one buffer that the invocations in flight share
HandlerWriteShared(i) ==
    /\ pc[i] = "serving"
    /\ Len(calls[i]) < callLimit
    /\ \E p \in Payloads :
          /\ res' = [j \in Invocations |->
                       IF pc[j] = "serving" THEN Write(res[j], p) ELSE res[j]]
          /\ calls' = [calls EXCEPT ![i] = Append(@, [op |-> "Write", p |-> p])]
    /\ UNCHANGED <<basepath, callLimit, event, pc, outcome, variant, path, req,
                   wire>>

\* the wrapped handler calls w.Write(p)
HandlerWrite(i) ==
    /\ pc[i] = "serving"
    /\ Len(calls[i]) < callLimit
    /\ \E p \in Payloads :
          /\ res' = [res EXCEPT ![i] = Write(@, p)]
          /\ calls' = [calls EXCEPT ![i] = Append(@, [op |-> "Write", p |-> p])]
    /\ UNCHANGED <<basepath, callLimit, event, pc, outcome, variant, path, req,
                   wire>>

\* the wrapped handler calls w.Header().Add(k, v)
HandlerHeaderAdd(i) ==
    /\ pc[i] = "serving"
    /\ Len(calls[i]) < callLimit
    /\ \E a \in HeaderAdds :
          /\ res' = [res EXCEPT ![i] = responseHeaderAdd(@, a[1], a[2])]
          /\ calls' = [calls EXCEPT
                         ![i] = Append(@, [op |-> "Add", k |-> a[1], v |-> a[2]])]
    /\ UNCHANGED <<basepath, callLimit, event, pc, outcome, variant, path, req,
                   wire>>

\* the wrapped handler returns: finalise, groupHeaders and the response value
HandlerReturn(i) ==
    /\ pc[i] = "serving"
    /\ res' = [res EXCEPT ![i] = finalise(@)]
    /\ wire' = [wire EXCEPT ![i] = encodeResponse(res[i])]
    /\ outcome' = [outcome EXCEPT ![i] = "ok"]
    /\ pc' = [pc EXCEPT ![i] = "done"]
    /\ UNCHANGED <<basepath, callLimit, event, variant, path, req, calls>>

Next ==
    \E i \in Invocations :
        \/ Invoke(i)
        \/ HandlerWriteHeader(i)
        \/ HandlerWrite(i)
        \/ HandlerHeaderAdd(i)
        \/ HandlerReturn(i)

(***************************************************************************)
(* Inputs.                                                                 *)
(***************************************************************************)
\* "hello"
Hello == << 104, 101, 108, 108, 111 >>

\* marks a key the event does not have
Absent == [t |-> "absent"]

\* the decoded event with the keys that are given a value
MkEvent(rc, p, rp, hm, body, b64, qs, qm, hs, hmv) ==
    LET all == [ requestContext |-> rc, path |-> p, rawPath |-> rp,
                 httpMethod |-> hm, body |-> body, isBase64Encoded |-> b64,
                 queryStringParameters |-> qs,
                 multiValueQueryStringParameters |-> qm,
                 headers |-> hs, multiValueHeaders |-> hmv ]
    IN  [ json |-> TRUE,
          m |-> [k \in {x \in DOMAIN all : all[x].t /= "absent"} |-> all[k]] ]

\* bytes that are no JSON object: json.Unmarshal fails
NotJson == [json |-> FALSE, m |-> EmptyMap]

\* a JSON object with the one key k
One(k, v) == [x \in {k} |-> v]

\* what requestContext.http can be
HttpShapes ==
    { JObj(One("method", JStr("POST"))), JObj(EmptyMap),
      JObj(One("method", JNum(1))), JStr("x") }

\* the requestContext objects: every subset of the three keys
RcObjects ==
    { JObj([k \in ks |-> IF k = "http" THEN h
                         ELSE IF k = "elb" THEN JObj(EmptyMap) ELSE JStr("/r")]) :
        ks \in SUBSET {"elb", "http", "resourcePath"}, h \in HttpShapes }

\* requestContext: absent, null, not an object, or an object
RcShapes == {Absent, Nil, JStr("x")} \cup RcObjects

\* the requestContext of a well-formed event of each variant
RcOf(v) ==
    CASE v = "ALB" -> JObj(One("elb", JObj(EmptyMap)))
      [] v = "V2" -> JObj(One("http", JObj(One("method", JStr("POST")))))
      [] v = "REST" -> JObj(One("resourcePath", JStr("/r")))

QsOk == JObj(One("a", JStr("b")))
QmOk == JObj(One("a", JArr(<< JStr("c"), JStr("d") >>)))
HsOk == JObj(One("x-custom", JStr("u")))
HmOk == JObj(One("X-Custom", JArr(<< JStr("v"), JStr("w") >>)))

\* a well-formed event of variant v with path p (in both path fields)
WellFormed(v, p, body, b64) ==
    MkEvent(RcOf(v), JStr(p), JStr(p), JStr("GET"), body, b64,
            QsOk, QmOk, HsOk, HmOk)

\* events that differ in requestContext
ClassifyEvents ==
    { MkEvent(rc, JStr("/my/resource"), JStr("/raw/path"), JStr("GET"),
              JStr(Hello), Absent, QsOk, Absent, HsOk, Absent) : rc \in RcShapes }

PathValues == {Absent, JNum(5), JStr("/my/resource"), JStr("/my?x")}
RawPathValues == {Absent, JNum(5), JStr("/raw/path"), JStr("//raw/path")}
MethodValues == {Absent, JNum(1), JStr("GET"), JStr(""), JStr("G T")}

\* events that differ in the path and method fields
FieldEvents ==
    { MkEvent(rc, p, rp, hm, JStr(Hello), Absent, QsOk, Absent, HsOk, Absent) :
        rc \in { x \in RcObjects : DOMAIN x.v /= {} },
        p \in PathValues, rp \in RawPathValues, hm \in MethodValues }

\* events that differ in the type of one of the other fields
TypeEvents ==
    LET ev(v, body, b64, qs, qm, hs, hmv) ==
            MkEvent(RcOf(v), JStr("/my/resource"), JStr("/raw/path"),
                    JStr("GET"), body, b64, qs, qm, hs, hmv)
    IN  UNION { { ev(v, body, b64, QsOk, QmOk, HsOk, HmOk) :
                    body \in {Absent, Nil, JStr(Hello)},
                    b64 \in {Absent, Nil, JBool(TRUE), JBool(FALSE), JStr("true")} }
                \cup { ev(v, JStr(Hello), Absent, qs, QmOk, HsOk, HmOk) :
                    qs \in {Absent, Nil, JStr("x"), JObj(One("a", JNum(1)))} }
                \cup { ev(v, JStr(Hello), Absent, QsOk, qm, HsOk, HmOk) :
                    qm \in {Absent, Nil, JStr("x"), JObj(One("a", JStr("c"))),
                            JObj(One("a", JArr(<< JStr("c"), JNum(1) >>)))} }
                \cup { ev(v, JStr(Hello), Absent, QsOk, QmOk, hs, HmOk) :
                    hs \in {Absent, Nil, JStr("x"), JObj(One("a", JNum(1)))} }
                \cup { ev(v, JStr(Hello), Absent, QsOk, QmOk, HsOk, hmv) :
                    hmv \in {Absent, Nil, JStr("x"), JObj(One("a", JStr("c"))),
                             JObj(One("a", JArr(<< JStr("c"), JNum(1) >>)))} }
              : v \in Variants }

\* the queryStringParameters of the query events: none, null, empty, one
\* key, two keys
QsInputs ==
    { Absent, Nil, JObj(EmptyMap), QsOk,
      JObj([k \in {"a", "k"} |-> IF k = "a" THEN JStr("b c") ELSE JStr("b")]) }

\* their multiValueQueryStringParameters: none, null, one key, two keys one
\* of which repeats a value, a key with an empty list
QmInputs ==
    { Absent, Nil, QmOk,
      JObj([k \in {"a", "k"} |->
              IF k = "a" THEN JArr(<< JStr("b"), JStr("b") >>)
              ELSE JArr(<< JStr("d&e"), JStr("c") >>)]),
      JObj(One("k", JArr(<<>>))) }

\* their paths: without a query, with one that has the key a twice
QueryPaths == {"/my/resource", "/my?a=z&a=y"}

\* events that differ in the query parameters
QueryEvents ==
    { MkEvent(RcOf(v), JStr(p), JStr(p), JStr("GET"), JStr(Hello), Absent,
              qs, qm, HsOk, Absent) :
        v \in Variants, p \in QueryPaths, qs \in QsInputs, qm \in QmInputs }

\* the headers of the header events: none, null, one name, two names, one
\* name in two spellings
HsInputs ==
    { Absent, Nil, HsOk,
      JObj([k \in {"x-custom", "X-Other"} |->
              IF k = "x-custom" THEN JStr("u") ELSE JStr("t")]),
      JObj([k \in {"x-custom", "X-Custom"} |->
              IF k = "x-custom" THEN JStr("u") ELSE JStr("z")]) }

\* their multiValueHeaders: none, null, one name, one name in two spellings,
\* a name with an empty list
HmInputs ==
    { Absent, Nil, HmOk,
      JObj([k \in {"x-custom", "X-Custom"} |->
              IF k = "x-custom" THEN JArr(<< JStr("y") >>)
              ELSE JArr(<< JStr("v"), JStr("w") >>)]),
      JObj(One("X-Other", JArr(<<>>))) }

\* events that differ in the headers
HeaderEvents ==
    { MkEvent(RcOf(v), JStr("/my/resource"), JStr("/raw/path"), JStr("GET"),
              JStr(Hello), Absent, QsOk, Absent, hs, hmv) :
        v \in Variants, hs \in HsInputs, hmv \in HmInputs }

\* the strings over chars of length at most n
RECURSIVE StringsUpTo(_, _)
StringsUpTo(chars, n) ==
    IF n = 0 THEN {""}
    ELSE LET S == StringsUpTo(chars, n - 1)
         IN  S \cup {s \o c : s \in S, c \in chars}

\* the byte sequences over bytes of length at most n
RECURSIVE BytesUpTo(_, _)
BytesUpTo(bytes, n) ==
    IF n = 0 THEN {<<>>}
    ELSE LET S == BytesUpTo(bytes, n - 1)
         IN  S \cup {Append(s, b) : s \in S, b \in bytes}

PathChars == {"/", "a"}
\* the incoming paths: empty or absolute, as a gateway sends them
PathInputs ==
    {p \in StringsUpTo(PathChars, MaxPathLen) : p = "" \/ HasPrefix(p, "/")}
        \cup {"/api", "/api/foo", "/other", "/apifoo", "/api/api/x"}
BasePathInputs == StringsUpTo(PathChars, MaxPathLen) \cup {"api", "/api"}

BodyBytes == {0, 104, 255}
BodyInputs == BytesUpTo(BodyBytes, MaxBodyLen) \cup {Hello}

(***************************************************************************)
(* Specifications.  They share Next and differ in the inputs Init draws.   *)
(***************************************************************************)
\* what is the same in every initial state: i1 is about to run Invoke
InitCommon ==
    /\ pc = [i \in Invocations |-> IF i = "i1" THEN "idle" ELSE "off"]
    /\ outcome = [i \in Invocations |-> "none"]
    /\ variant = [i \in Invocations |-> "none"]
    /\ path = [i \in Invocations |-> ""]
    /\ req = [i \in Invocations |-> NoReq]
    /\ res = [i \in Invocations |-> NoRes]
    /\ wire = [i \in Invocations |-> NoWire]
    /\ calls = [i \in Invocations |-> <<>>]

\* one invocation of a well-formed event of each variant, every handler of
\* at most MaxCalls calls
Init ==
    /\ InitCommon
    /\ basepath \in {WithBasePath(""), WithBasePath("api")}
    /\ callLimit = MaxCalls
    /\ \E v \in Variants :
          event = [i \in Invocations |->
                     IF i = "i1" THEN WellFormed(v, "/api/foo", JStr(Hello), Absent)
                     ELSE NotJson]

Spec == Init /\ [][Next]_vars

\* one invocation of an event of any shape
InitRequest ==
    /\ InitCommon
    /\ basepath \in {WithBasePath(""), WithBasePath("api")}
    /\ callLimit = MaxReqCalls
    /\ \E e \in {NotJson} \cup ClassifyEvents \cup FieldEvents \cup TypeEvents
                  \cup QueryEvents \cup HeaderEvents :
          event = [i \in Invocations |-> IF i = "i1" THEN e ELSE NotJson]

SpecRequest == InitRequest /\ [][Next]_vars

\* one invocation of an event with any path under any base path
InitPath ==
    /\ InitCommon
    /\ \E p \in BasePathInputs : basepath = WithBasePath(p)
    /\ callLimit = MaxReqCalls
    /\ \E v \in Variants, p \in PathInputs :
          event = [i \in Invocations |->
                     IF i = "i1" THEN WellFormed(v, p, JStr(Hello), Absent)
                     ELSE NotJson]

SpecPath == InitPath /\ [][Next]_vars

\* one invocation of an event with any body, base64 or not
InitBody ==
    /\ InitCommon
    /\ basepath = WithBasePath("")
    /\ callLimit = MaxReqCalls
    /\ \E v \in Variants,
          body \in {Absent} \cup {JStr(x) : x \in BodyInputs}
                     \cup {JStr(EncodeToString(x)) : x \in BodyInputs},
          b64 \in {Absent, JBool(TRUE), JBool(FALSE)} :
          event = [i \in Invocations |->
                     IF i = "i1" THEN WellFormed(v, "/my/resource", body, b64)
                     ELSE NotJson]

SpecBody == InitBody /\ [][Next]_vars

\* two invocations on one adapter, of different events, in any interleaving
InitConcurrent ==
    /\ pc = [i \in Invocations |-> "idle"]
    /\ outcome = [i \in Invocations |-> "none"]
    /\ variant = [i \in Invocations |-> "none"]
    /\ path = [i \in Invocations |-> ""]
    /\ req = [i \in Invocations |-> NoReq]
    /\ res = [i \in Invocations |-> NoRes]
    /\ wire = [i \in Invocations |-> NoWire]
    /\ calls = [i \in Invocations |-> <<>>]
    /\ basepath = WithBasePath("api")
    /\ callLimit = MaxReqCalls
    /\ event = [i \in Invocations |->
                  IF i = "i1" THEN WellFormed("REST", "/api/foo", JStr(Hello), Absent)
                  ELSE WellFormed("V2", "/other", JStr(EncodeToString(<< 104, 105 >>)),
                                  JBool(TRUE))]

SpecConcurrent == InitConcurrent /\ [][Next]_vars

(***************************************************************************)
(* Properties.                                                             *)
(***************************************************************************)
\* Invoke has acted for invocation i
Invoked(i) == pc[i] \in {"serving", "done"}

\* the wrapped handler was called for invocation i
Served(i) == pc[i] = "serving" \/ (pc[i] = "done" /\ outcome[i] = "ok")

\* the calls of a log that commit the status
Committing(log) == {n \in 1..Len(log) : log[n].op \in {"WriteHeader", "Write"}}

\* the status the first committing call of a log gives
FirstCommitStatus(log) ==
    LET n == CHOOSE x \in Committing(log) : \A y \in Committing(log) : x <= y
    IN  IF log[n].op = "WriteHeader" THEN log[n].code ELSE 200

\* the bytes a log writes, in call order
RECURSIVE Written(_)
Written(log) ==
    IF Len(log) = 0 THEN <<>>
    ELSE (IF Head(log).op = "Write" THEN Head(log).p ELSE <<>>) \o Written(Tail(log))

\* the values a log adds under the canonical header name, in call order
RECURSIVE AddedValues(_, _)
AddedValues(log, name) ==
    IF Len(log) = 0 THEN <<>>
    ELSE (IF Head(log).op = "Add" /\ CanonicalMIMEHeaderKey(Head(log).k) = name
          THEN << Head(log).v >> ELSE <<>>) \o AddedValues(Tail(log), name)

\* C1: the recorded status is the one the first committing call gives (the
\* code of a WriteHeader, 200 for a Write), whatever WriteHeader calls
\* follow; with no committing call nothing is recorded as written.
C1_FirstCommitWins ==
    \A i \in Invocations :
        Served(i) =>
            IF Committing(calls[i]) = {}
            THEN ~res[i].wroteHeader
            ELSE /\ res[i].wroteHeader
                 /\ res[i].status = FirstCommitStatus(calls[i])

\* a Write followed by WriteHeader(500) has left the status at 200
C1_Witness ==
    \E i \in Invocations :
        /\ Served(i)
        /\ Len(calls[i]) >= 2
        /\ calls[i][1].op = "Write"
        /\ calls[i][2] = [op |-> "WriteHeader", code |-> 500]
        /\ res[i].status = 200

\* C2: the statusCode of the response Invoke returns is 200 unless the
\* handler set another status before its first write, also when the
\* handler returns without calling WriteHeader or Write.
C2_StatusDefaults200 ==
    \A i \in Invocations :
        (pc[i] = "done" /\ outcome[i] = "ok") =>
            wire[i].statusCode =
                IF Committing(calls[i]) = {} THEN 200
                ELSE FirstCommitStatus(calls[i])

\* C3: every header name of the finalised response is in exactly one of
\* headers and multiValueHeaders: in headers with its value when it has one
\* value, in multiValueHeaders with the list in the order added otherwise.
C3_HeaderFolding ==
    \A i \in Invocations :
        (pc[i] = "done" /\ outcome[i] = "ok") =>
            LET h == wire[i].headers
                mvh == wire[i].multiValueHeaders
            IN  /\ DOMAIN h \cup DOMAIN mvh = DOMAIN res[i].header
                /\ DOMAIN h \cap DOMAIN mvh = {}
                /\ \A k \in DOMAIN res[i].header :
                      IF Len(res[i].header[k]) = 1
                      THEN k \in DOMAIN h /\ h[k] = res[i].header[k][1]
                      ELSE k \in DOMAIN mvh /\ mvh[k] = res[i].header[k]
                /\ LET vs == AddedValues(calls[i], "X-Tag")
                   IN  /\ Len(vs) = 0 => "X-Tag" \notin DOMAIN h \cup DOMAIN mvh
                       /\ Len(vs) = 1 => "X-Tag" \in DOMAIN h /\ h["X-Tag"] = vs[1]
                       /\ Len(vs) >= 2
                            => "X-Tag" \in DOMAIN mvh /\ mvh["X-Tag"] = vs

\* X-Tag added twice with the same value is in multiValueHeaders only, next
\* to a single-valued Content-Type in headers
C3_Witness ==
    \E i \in Invocations :
        /\ pc[i] = "done" /\ outcome[i] = "ok"
        /\ "X-Tag" \in DOMAIN wire[i].multiValueHeaders
        /\ wire[i].multiValueHeaders["X-Tag"] = << "text/html", "text/html" >>
        /\ "X-Tag" \notin DOMAIN wire[i].headers
        /\ "Content-Type" \in DOMAIN wire[i].headers

\* the keys of the event's requestContext when it is an object
RcKeys(e) == DOMAIN e.m["requestContext"].v

\* the wrapped handler was not called and no response was built
NotCalled(i) ==
    /\ req[i] = NoReq /\ res[i] = NoRes /\ wire[i] = NoWire /\ calls[i] = <<>>

\* C4: the variant is the first of elb, http, resourcePath present in
\* requestContext; without requestContext or without any of the three keys
\* Invoke returns the unsupported-integration error and calls no handler.
C4_VariantSelection ==
    \A i \in Invocations :
        (Invoked(i) /\ event[i].json) =>
            IF ~Has(event[i].m, "requestContext")
            THEN outcome[i] = "unsupported" /\ variant[i] = "none" /\ NotCalled(i)
            ELSE IsMap(event[i].m["requestContext"]) =>
                   LET k == RcKeys(event[i])
                   IN  /\ "elb" \in k => variant[i] = "ALB"
                       /\ ("elb" \notin k /\ "http" \in k) => variant[i] = "V2"
                       /\ ("elb" \notin k /\ "http" \notin k /\ "resourcePath" \in k)
                            => variant[i] = "REST"
                       /\ k \cap {"elb", "http", "resourcePath"} = {}
                            => /\ outcome[i] = "unsupported"
                               /\ variant[i] = "none"
                               /\ NotCalled(i)

\* an event with elb and http was handled as ALB, and its handler called
C4_Witness ==
    \E i \in Invocations :
        /\ Served(i)
        /\ event[i].json
        /\ IsMap(Lookup(event[i].m, "requestContext"))
        /\ {"elb", "http"} \subseteq RcKeys(event[i])
        /\ variant[i] = "ALB"

\* C5: no event makes Invoke panic: a field of the wrong JSON type makes
\* Invoke return an error to its caller.
C5_NoPanic ==
    \A i \in Invocations : outcome[i] /= "panic"

\* the value at key k of a decoded JSON value, nil when there is none
Field(x, k) == IF IsMap(x) THEN Lookup(x.v, k) ELSE Nil

\* the string the variant's method field holds in the event of invocation
\* i, "?" when it holds no string
EventMethod(i) ==
    LET mv == IF variant[i] = "V2"
              THEN Field(Field(Lookup(event[i].m, "requestContext"), "http"),
                         "method")
              ELSE Lookup(event[i].m, "httpMethod")
    IN  IF IsString(mv) THEN mv.v ELSE "?"

\* the string the variant's path field holds in the event of invocation i
EventPath(i) ==
    IF variant[i] = "V2" THEN event[i].m["rawPath"].v ELSE event[i].m["path"].v

\* a path that url.Parse leaves as it is: one leading slash, no query
PlainPath(p) ==
    HasPrefix(p, "/") /\ ~HasPrefix(p, "//") /\ Index(p, "?") < 0

\* C6 as stated: with an empty base path the handler sees exactly the
\* method and the path of the variant's fields (httpMethod and path for
\* REST proxy and ALB, requestContext.http.method and rawPath for HTTP API
\* v2).
C6_ExactMethodAndPath ==
    \A i \in Invocations :
        (Served(i) /\ basepath = "") =>
            /\ req[i].method = EventMethod(i)
            /\ req[i].path = EventPath(i)

\* C6, amended: with an empty base path the handler sees the method of the
\* variant's method field, GET when that field is the empty string, and
\* exactly the path of the variant's path field when that path starts with
\* one slash and has no query part.
C6_MethodAndPathFields ==
    \A i \in Invocations :
        (Served(i) /\ basepath = "") =>
            /\ req[i].method = IF EventMethod(i) = "" THEN "GET" ELSE EventMethod(i)
            /\ PlainPath(EventPath(i)) => req[i].path = EventPath(i)

\* an HTTP API v2 event that also has httpMethod and path was served with
\* the nested method and rawPath
C6_Witness ==
    \E i \in Invocations :
        /\ Served(i) /\ basepath = ""
        /\ variant[i] = "V2"
        /\ Lookup(event[i].m, "httpMethod") = JStr("GET")
        /\ Lookup(event[i].m, "path") = JStr("/my/resource")
        /\ req[i].method = "POST"
        /\ req[i].path = "/raw/path"

\* C7: a path that starts with the base path loses it once from the front,
\* an empty remainder becoming "/"; any other path is unmodified.
C7_RewritePath ==
    \A i \in Invocations :
        (Invoked(i) /\ variant[i] \in Variants) =>
            LET p == EventPath(i)
                rest == Slice(p, Len(basepath), Len(p))
            IN  path[i] = IF HasPrefix(p, basepath)
                          THEN (IF rest = "" THEN "/" ELSE rest)
                          ELSE p

\* /api/api/x under /api was rewritten to /api/x: the second occurrence of
\* the base path is kept
C7_Witness ==
    \E i \in Invocations :
        /\ Invoked(i) /\ variant[i] \in Variants
        /\ basepath = "/api"
        /\ EventPath(i) = "/api/api/x"
        /\ path[i] = "/api/x"

\* C8: after base-path rewriting the path of the request is absolute and
\* not empty, for every incoming path and base path.
C8_PathAbsolute ==
    \A i \in Invocations :
        Served(i) =>
            /\ path[i] /= "" /\ HasPrefix(path[i], "/")
            /\ req[i].path /= "" /\ HasPrefix(req[i].path, "/")

\* C9: the handler reads the base64 decoding of a string body when
\* isBase64Encoded is true (base64(x) yields x), the bytes of the string
\* when the flag is false or absent, and nothing when there is no body.
C9_RequestBody ==
    \A i \in Invocations :
        Served(i) =>
            LET b == Lookup(event[i].m, "body")
                f == Lookup(event[i].m, "isBase64Encoded")
            IN  /\ ~Has(event[i].m, "body")
                     => req[i].body = <<>> /\ ~req[i].bodyErr
                /\ (IsString(b) /\ f \in {Nil, JBool(FALSE)})
                     => req[i].body = b.v /\ ~req[i].bodyErr
                /\ (IsString(b) /\ f = JBool(TRUE))
                     => \A x \in BodyInputs :
                           b.v = EncodeToString(x)
                             => req[i].body = x /\ ~req[i].bodyErr

\* base64("hello") with the flag true was read as "hello"
C9_Witness ==
    \E i \in Invocations :
        /\ Served(i)
        /\ Lookup(event[i].m, "isBase64Encoded") = JBool(TRUE)
        /\ Lookup(event[i].m, "body") = JStr(<< 97, 71, 86, 115, 98, 71, 56, 61 >>)
        /\ req[i].body = Hello

\* the Content-Type of an encoded response: its value in headers, or its
\* first value in multiValueHeaders
WireContentType(w) ==
    IF "Content-Type" \in DOMAIN w.headers THEN w.headers["Content-Type"]
    ELSE w.multiValueHeaders["Content-Type"][1]

Finalised(added, default) == IF Len(added) = 0 THEN << default >> ELSE added

\* C11: after the handler returns, a Content-Type and a Content-Length the
\* handler set are left as they are and gain no value; when it set none,
\* exactly one is added, the type sniffed from the written bytes and the
\* count of the written bytes.
C11_HeaderFinalisation ==
    \A i \in Invocations :
        (pc[i] = "done" /\ outcome[i] = "ok") =>
            /\ res[i].header["Content-Type"]
                 = Finalised(AddedValues(calls[i], "Content-Type"),
                             DetectContentType(Written(calls[i])))
            /\ res[i].header["Content-Length"]
                 = Finalised(AddedValues(calls[i], "Content-Length"),
                             ToString(Len(Written(calls[i]))))

\* the values a wire response carries under a header name
WireValues(w, name) ==
    IF name \in DOMAIN w.headers THEN { w.headers[name] }
    ELSE IF name \in DOMAIN w.multiValueHeaders
         THEN { w.multiValueHeaders[name][n] :
                    n \in 1..Len(w.multiValueHeaders[name]) }
         ELSE {}

\* C12: every value the handler added is in the wire response under its
\* canonical name, whether it was added before or after the call that
\* committed the status; when the handler added a Content-Type, the first
\* one it added is the response's Content-Type and decides the base64 flag.
C12_HeadersNotLocked ==
    \A i \in Invocations :
        (pc[i] = "done" /\ outcome[i] = "ok") =>
            LET log == calls[i]
                ct  == AddedValues(log, "Content-Type")
            IN  /\ \A n \in 1..Len(log) :
                      log[n].op = "Add" =>
                          log[n].v \in WireValues(wire[i],
                                         CanonicalMIMEHeaderKey(log[n].k))
                /\ Len(ct) > 0 =>
                      /\ WireContentType(wire[i]) = ct[1]
                      /\ wire[i].isBase64Encoded
                           = \E j \in 1..Len(binaryMimeTypes) :
                                 HasPrefix(ct[1], binaryMimeTypes[j])

\* a handler wrote a body, committing the status, and only then added its
\* one Content-Type, image/jpeg: the response has it and is base64
C12_Witness ==
    \E i \in Invocations :
        /\ pc[i] = "done" /\ outcome[i] = "ok"
        /\ \E n, m \in 1..Len(calls[i]) :
              /\ n < m
              /\ calls[i][n].op = "Write" /\ Len(calls[i][n].p) > 0
              /\ calls[i][m] = [op |-> "Add", k |-> "Content-Type",
                                v |-> "image/jpeg"]
        /\ AddedValues(calls[i], "Content-Type") = << "image/jpeg" >>
        /\ wire[i].headers["Content-Type"] = "image/jpeg"
        /\ wire[i].isBase64Encoded

\* C14: while the handler runs, the buffer is the concatenation of the
\* written byte slices in call order, and the header map holds, under every
\* name, the values added so far in call order: a Write, committing or not,
\* changes no header value.
C14_WriteAppends ==
    \A i \in Invocations :
        pc[i] = "serving" =>
            /\ res[i].buffer = Written(calls[i])
            /\ \A k \in { a[1] : a \in HeaderAdds } :
                  LET name == CanonicalMIMEHeaderKey(k)
                      added == AddedValues(calls[i], name)
                  IN  IF Len(added) = 0 THEN name \notin DOMAIN res[i].header
                      ELSE res[i].header[name] = added

\* a handler added a header, wrote "hi", committing the status, and then
\* wrote the three magic bytes
C14_Witness ==
    \E i \in Invocations :
        /\ pc[i] = "serving"
        /\ Len(calls[i]) = 3
        /\ calls[i][1].op = "Add"
        /\ calls[i][2] = [op |-> "Write", p |-> << 104, 105 >>]
        /\ calls[i][3] = [op |-> "Write", p |-> JpegMagic]
        /\ res[i].buffer = << 104, 105, 255, 216, 255 >>
        /\ res[i].status = 200

\* the values of a key in a multi-map, none when the key is not there
ValuesOf(q, k) == IF k \in DOMAIN q THEN q[k] ELSE <<>>

\* the value queryStringParameters gives a key
SingularQuery(e, k) ==
    LET p == Lookup(e.m, "queryStringParameters")
    IN  IF k \in KeysOf(p) THEN << p.v[k].v >> ELSE <<>>

\* the values multiValueQueryStringParameters gives a key, in list order
MultiQuery(e, k) ==
    LET p == Lookup(e.m, "multiValueQueryStringParameters")
    IN  IF k \in KeysOf(p) THEN toStringSlice(p.v[k].v) ELSE <<>>

\* the keys of the query of invocation i and of its two sources
QueryKeys(i) ==
    DOMAIN req[i].query
        \cup KeysOf(Lookup(event[i].m, "queryStringParameters"))
        \cup KeysOf(Lookup(event[i].m, "multiValueQueryStringParameters"))

\* the values the query string of the rewritten path itself gives a key
PathQuery(i, k) == ValuesOf(ParseQuery(Cut(path[i], "?")[2]), k)

\* C15 as stated: the query of the request holds, for every key, the
\* singular value, if any, and then the multi values in list order.
C15_QueryMerge ==
    \A i \in Invocations :
        Served(i) =>
            \A k \in QueryKeys(i) :
                ValuesOf(req[i].query, k)
                    = SingularQuery(event[i], k) \o MultiQuery(event[i], k)

\* C15: the query the handler reads holds, for every key, the values the
\* path's own query string has for it, then the singular value, if any, then
\* the multi values in list order; for a path without a query string these
\* are the singular value and the multi values alone.
C15_QueryMergeAfterPath ==
    \A i \in Invocations :
        Served(i) =>
            \A k \in QueryKeys(i) :
                /\ ValuesOf(req[i].query, k)
                     = PathQuery(i, k) \o SingularQuery(event[i], k)
                           \o MultiQuery(event[i], k)
                /\ Index(path[i], "?") < 0 => PathQuery(i, k) = <<>>

\* a request whose key a is in both sources, with a value that needs
\* escaping, and whose key k is in the multi-value source alone
C15_Witness ==
    \E i \in Invocations :
        /\ Served(i)
        /\ Index(path[i], "?") < 0
        /\ SingularQuery(event[i], "a") = << "b c" >>
        /\ MultiQuery(event[i], "a") = << "b", "b" >>
        /\ req[i].query["a"] = << "b c", "b", "b" >>
        /\ req[i].query["k"] = << "b", "d&e", "c" >>
        /\ req[i].rawQuery = "a=b+c&a=b&a=b&k=b&k=d%26e&k=c"

\* the keys of an event field that are spellings of a canonical header name
Spellings(e, field, name) ==
    {k \in KeysOf(Lookup(e.m, field)) : CanonicalMIMEHeaderKey(k) = name}

\* the canonical names of the request headers of invocation i and of the
\* two sources
HeaderKeys(i) ==
    DOMAIN req[i].header
        \cup { CanonicalMIMEHeaderKey(k) :
                 k \in KeysOf(Lookup(event[i].m, "headers"))
                         \cup KeysOf(Lookup(event[i].m, "multiValueHeaders")) }

\* C16: under every name the request has first the values of the entries of
\* headers with that name, then one value for each entry of
\* multiValueHeaders with that name, its list joined with commas in list
\* order; a name with one entry in each map has two values, the singular one
\* and the joined one.
C16_HeaderMerge ==
    \A i \in Invocations :
        Served(i) =>
            \A name \in HeaderKeys(i) :
                LET hs == Lookup(event[i].m, "headers")
                    hm == Lookup(event[i].m, "multiValueHeaders")
                    S == Spellings(event[i], "headers", name)
                    M == Spellings(event[i], "multiValueHeaders", name)
                    vs == ValuesOf(req[i].header, name)
                    s == Cardinality(S)
                IN  /\ Len(vs) = s + Cardinality(M)
                    /\ \E o \in Orders(S) :
                          \A n \in 1..s : vs[n] = hs.v[o[n]].v
                    /\ \E o \in Orders(M) :
                          \A n \in 1..Cardinality(M) :
                              vs[s + n] = Join(toStringSlice(hm.v[o[n]].v), ",")

\* a request with x-custom: u in headers and X-Custom: [v, w] in
\* multiValueHeaders, each the only entry of its name, has "u" and "v,w"
C16_Witness ==
    \E i \in Invocations :
        /\ Served(i)
        /\ Lookup(event[i].m, "headers") = HsOk
        /\ Lookup(event[i].m, "multiValueHeaders") = HmOk
        /\ req[i].header = [k \in {"X-Custom"} |-> << "u", "v,w" >>]

\* the response a log of handler calls builds from a new response
RECURSIVE Replay(_, _)
Replay(r, log) ==
    IF Len(log) = 0 THEN r
    ELSE LET c == Head(log)
             n == CASE c.op = "WriteHeader" -> WriteHeader(r, c.code)
                    [] c.op = "Write" -> Write(r, c.p)
                    [] c.op = "Add" -> responseHeaderAdd(r, c.k, c.v)
         IN  Replay(n, Tail(log))

\* what invocation i holds is what its own event and its own handler's
\* calls give
OwnState(i) ==
    /\ Invoked(i) =>
          /\ variant[i] = classify(event[i])
          /\ \E ord \in RangeOrders(event[i].m) :
                LET b == buildRequest(event[i].m, basepath, variant[i], ord)
                IN  path[i] = b.path /\ req[i] = b.req
    /\ pc[i] = "serving" => res[i] = Replay(NewResponse, calls[i])
    /\ (pc[i] = "done" /\ outcome[i] = "ok") =>
          wire[i] = encodeResponse(Replay(NewResponse, calls[i]))

\* the state of invocation i
StateOf(i) ==
    << pc[i], outcome[i], variant[i], path[i], req[i], res[i], wire[i],
       calls[i] >>

\* a step of one invocation leaves the other invocations as they are
StepIsLocal ==
    \A i, j \in Invocations :
        (i /= j /\ StateOf(i)' /= StateOf(i)) => StateOf(j)' = StateOf(j)

\* C13: in every interleaving of two invocations on one adapter each
\* invocation's request and wire response are those its own event and its
\* own handler's calls give, a step of one changes nothing of the other,
\* and no step changes the base path or an event.
C13_Isolation ==
    /\ [](\A i \in Invocations : OwnState(i))
    /\ [][StepIsLocal /\ basepath' = basepath /\ event' = event]_vars

\* one invocation returned the body its handler wrote while the other's
\* handler was running with bytes of its own in its buffer
C13_Witness ==
    /\ pc["i1"] = "done" /\ outcome["i1"] = "ok"
    /\ calls["i1"] = << [op |-> "Write", p |-> << 104, 105 >>] >>
    /\ wire["i1"].body = << 104, 105 >>
    /\ wire["i1"].statusCode = 200
    /\ pc["i2"] = "serving"
    /\ calls["i2"] = << [op |-> "Write", p |-> JpegMagic] >>
    /\ res["i2"].buffer = JpegMagic
    /\ req["i1"].path = "/foo" /\ req["i2"].path = "/other"

====
